---- MODULE Spec2Model ----
(***************************************************************************)
(* Model of the two KiCad action plugins of madron/kicad-plugins:          *)
(*   pipeline A = jlc/plugin.py        (JlcPlugin)                         *)
(*   pipeline B = pcb2gcode/plugin.py  (Pcb2GcodePlugin)                   *)
(* One Run of a plugin is a fixed sequence of method calls; pc is the      *)
(* position of Run in that sequence.  The host toolkit (pcbnew), the       *)
(* netlist reader and the YAML loader are external: what they hand to the  *)
(* plugin is drawn from bounded sets in the initial state.                 *)
(***************************************************************************)
EXTENDS Integers, Sequences, FiniteSets, TLC

VARIABLES
    pipeline,   \* "A" (JlcPlugin) or "B" (Pcb2GcodePlugin)
    pc,         \* position of Run: the last step that completed, or "failed"
    steps,      \* the methods Run has called so far, in call order
    attrs,      \* TRUE once prepare has assigned self.board, self.files, ...
    fab,        \* directory <project>/fab: [exists, files]
    jlc,        \* directory <project>/jlc: [exists, files]
    archive,    \* member names of jlc/<project>.zip, in write order
    popt,       \* the board's plot options (PCB_PLOT_PARAMS)
    missing,    \* the files the toolkit fails to produce in this run
    netlist,    \* net.groupComponents(): sequence of groups of components
    netlistOk,  \* whether <project>.xml can be read
    bom,        \* rows of jlc/bom.csv
    modules,    \* board.GetModules()
    overrides,  \* jlc-rotation-override.yml: [kind, table]
    cpl         \* jlc/cpl.csv: [header, rows]

vars == <<pipeline, pc, steps, attrs, fab, jlc, archive, popt, missing,
          netlist, netlistOk, bom, modules, overrides, cpl>>

(***************************************************************************)
(* Bounds of the model.                                                    *)
(***************************************************************************)
MaxComponents == 3   \* components in the netlist
MaxModules == 2      \* footprints on the board
MaxMissing == 1      \* files the toolkit may fail to produce in one run

(***************************************************************************)
(* Static data assigned by prepare (identical in both plugins).            *)
(***************************************************************************)
project_name == "proj"

SENTINEL == "REF**"

layers ==
    << [suffix |-> "F_Cu",      extension |-> "gtl"],
       [suffix |-> "B_Cu",      extension |-> "gbl"],
       [suffix |-> "F_Paste",   extension |-> "gtp"],
       [suffix |-> "F_SilkS",   extension |-> "gto"],
       [suffix |-> "B_SilkS",   extension |-> "gbo"],
       [suffix |-> "F_Mask",    extension |-> "gts"],
       [suffix |-> "B_Mask",    extension |-> "gbs"],
       [suffix |-> "Edge_Cuts", extension |-> "gm1"] >>

\* '{}.{}'.format(layer['suffix'], layer['extension'])
layer_name(layer) == layer.suffix \o "." \o layer.extension

drill_files ==
    << [source_extension |-> "-drl_map.gbr", name |-> "Drill_Map.gbr"],
       [source_extension |-> ".drl",         name |-> "Drill.drl"] >>

\* self.files after the two loops of prepare: the drill rules, then one rule
\* per layer; source_path and destination_path are names inside fab_dir.
files ==
    LET rules == drill_files \o
                 [i \in 1..Len(layers) |->
                     [source_extension |-> "-" \o layer_name(layers[i]),
                      name |-> layer_name(layers[i])]]
    IN [i \in 1..Len(rules) |->
           [source_extension |-> rules[i].source_extension,
            name             |-> rules[i].name,
            source_path      |-> project_name \o rules[i].source_extension,
            destination_path |-> rules[i].name]]

zip_name == project_name \o ".zip"
bom_name == "bom.csv"
position_name == "cpl.csv"

Range(s) == {s[i] : i \in DOMAIN s}

LayerNames == {layer_name(layers[i]) : i \in DOMAIN layers}
SourceNames == {files[i].source_path : i \in DOMAIN files}
CanonicalNames == {files[i].name : i \in DOMAIN files}

\* the order in which Run calls the methods of pipeline A
RunOrder == <<"prepare", "generate_gerber", "generate_drill", "rename_files",
              "generate_gerber_zipfile", "generate_bom", "generate_position">>

(***************************************************************************)
(* File system helpers.                                                    *)
(***************************************************************************)
NoDir == [exists |-> FALSE, files |-> {}]
EmptyDir == [exists |-> TRUE, files |-> {}]

\* try: shutil.rmtree(d) except FileNotFoundError: pass
rmtree(d) == IF d.exists THEN NoDir ELSE d

\* os.mkdir(d): the directory was removed just before, so it is created
mkdir(d) == [exists |-> TRUE, files |-> d.files]

\* the loop of rename_files from rule i on: os.rename raises
\* FileNotFoundError at the first rule whose source is missing, the renames
\* done before it stay
RECURSIVE rename_from(_, _)
rename_from(i, dirfiles) ==
    IF i > Len(files) THEN [ok |-> TRUE, files |-> dirfiles]
    ELSE IF files[i].source_path \notin dirfiles
         THEN [ok |-> FALSE, files |-> dirfiles]
         ELSE rename_from(i + 1,
                  (dirfiles \ {files[i].source_path})
                      \cup {files[i].destination_path})

\* zip_from storing the layer files only
RECURSIVE zip_layers_from(_, _, _)
zip_layers_from(i, dirfiles, members) ==
    IF i > Len(files) THEN [ok |-> TRUE, members |-> members]
    ELSE IF files[i].name \notin LayerNames
         THEN zip_layers_from(i + 1, dirfiles, members)
         ELSE IF files[i].destination_path \notin dirfiles
              THEN [ok |-> FALSE, members |-> members]
              ELSE zip_layers_from(i + 1, dirfiles,
                                   Append(members, files[i].name))

\* the loop of generate_gerber_zipfile from rule i on: gerber.write raises
\* when the file to store does not exist
RECURSIVE zip_from(_, _, _)
zip_from(i, dirfiles, members) ==
    IF i > Len(files) THEN [ok |-> TRUE, members |-> members]
    ELSE IF files[i].destination_path \notin dirfiles
         THEN [ok |-> FALSE, members |-> members]
         ELSE zip_from(i + 1, dirfiles, Append(members, files[i].name))

(***************************************************************************)
(* Strings whose characters matter (part numbers) are sequences of         *)
(* one-character strings, so that str.lower() is computed per character.   *)
(***************************************************************************)
UpperChars == <<"A","B","C","D","E","F","G","H","I","J","K","L","M",
                "N","O","P","Q","R","S","T","U","V","W","X","Y","Z">>
LowerChars == <<"a","b","c","d","e","f","g","h","i","j","k","l","m",
                "n","o","p","q","r","s","t","u","v","w","x","y","z">>

lower_char(ch) ==
    IF \E i \in DOMAIN UpperChars : UpperChars[i] = ch
    THEN LowerChars[CHOOSE i \in DOMAIN UpperChars : UpperChars[i] = ch]
    ELSE ch

\* str.lower()
lower(s) == [i \in DOMAIN s |-> lower_char(s[i])]

Str_empty == <<>>
Str_skip == <<"s","k","i","p">>
Str_SKIP == <<"S","K","I","P">>
Str_C12345 == <<"C","1","2","3","4","5">>
Str_C9 == <<"C","9">>

\* the values of the LCSC field the netlist reader may return
PartNumbers == {Str_empty, Str_C12345, Str_C9, Str_skip, Str_SKIP}

(***************************************************************************)
(* generate_bom: the body of the loop over one group, then over the groups.*)
(***************************************************************************)
\* field_or keeping the first part number met: lcsc_pn or getField("LCSC")
field_or_first(field, lcsc_pn) == IF lcsc_pn # Str_empty THEN lcsc_pn ELSE field

\* component.getField("LCSC") or lcsc_pn
field_or(field, lcsc_pn) == IF field # Str_empty THEN field ELSE lcsc_pn

\* is_sentinel with the sentinel misspelt
is_sentinel_typo(ref) == ref = "REF*"

\* ref == 'REF**'
is_sentinel(ref) == ref = SENTINEL

\* lcsc_pn.lower() == 'skip'
is_skip(lcsc_pn) == lower(lcsc_pn) = Str_skip

\* the inner loop "for component in group" from member i on;
\* st = [refs, lcsc_pn, c] are the loop's local variables
RECURSIVE group_loop(_, _, _)
group_loop(group, i, st) ==
    IF i > Len(group) THEN st
    ELSE LET component == group[i]
             ref == component.ref
         IN IF is_sentinel(ref)
            THEN group_loop(group, i + 1, st)
            ELSE LET pn == field_or(component.lcsc, st.lcsc_pn)
                 IN IF is_skip(pn)
                    THEN group_loop(group, i + 1, [st EXCEPT !.lcsc_pn = pn])
                    ELSE group_loop(group, i + 1,
                             [refs |-> Append(st.refs, ref),
                              lcsc_pn |-> pn,
                              c |-> component])

\* no_refs with the comparison off by one: len(refs) < 0
no_refs_never(refs) == Len(refs) < 0

\* len(refs) == 0: the group is left out
no_refs(refs) == Len(refs) = 0

\* the row written for one group: [Comment, Designator, Footprint, LCSC];
\* Designator keeps the list that ",".join(refs) joins, Footprint is
\* c.getFootprint().split(':')[1] of a footprint held as <<library, name>>
bom_row(st) ==
    [Comment    |-> st.c.value \o " " \o st.c.description,
     Designator |-> st.refs,
     Footprint  |-> st.c.footprint[2],
     LCSC       |-> st.lcsc_pn]

\* the outer loop "for group in net.groupComponents()" from group g on;
\* c is the variable c of generate_bom, which outlives a group
RECURSIVE bom_rows(_, _, _)
bom_rows(groups, g, c) ==
    IF g > Len(groups) THEN <<>>
    ELSE LET st == group_loop(groups[g], 1,
                       [refs |-> <<>>, lcsc_pn |-> Str_empty, c |-> c])
         IN IF no_refs(st.refs)
            THEN bom_rows(groups, g + 1, st.c)
            ELSE <<bom_row(st)>> \o bom_rows(groups, g + 1, st.c)

(***************************************************************************)
(* generate_position.                                                      *)
(***************************************************************************)
\* int(module.GetOrientationDegrees()): the board keeps the orientation in
\* tenths of a degree, int() truncates toward zero
int_degrees(decidegrees) ==
    IF decidegrees >= 0 THEN decidegrees \div 10
    ELSE -((-decidegrees) \div 10)

\* rotation_of without the normalisation
rotation_of_nomod(decidegrees, rotation_override) ==
    int_degrees(decidegrees) + rotation_override

\* (360 + int(rotation) + rotation_override) % 360; Python's % with a
\* positive modulus gives a result in 0..359, as TLA+'s % does
rotation_of(decidegrees, rotation_override) ==
    (360 + int_degrees(decidegrees) + rotation_override) % 360

\* rotation_overrides = dict(), replaced by yaml.safe_load when the file is
\* there
load_overrides(ov) ==
    IF ov.kind = "absent" THEN << >> ELSE ov.table

\* override_get with another default: rotation_overrides.get(ref, 90)
override_get_default90(table, ref) ==
    IF ref \in DOMAIN table THEN table[ref] ELSE 90

\* rotation_overrides.get(ref, 0)
override_get(table, ref) ==
    IF ref \in DOMAIN table THEN table[ref] ELSE 0

fieldnames == <<"Designator", "Mid X", "Mid Y", "Layer", "Rotation">>

\* the row of one module; Mid X / Mid Y are center / 1000000 millimetres,
\* kept as the exact fraction [num, den], Y negated
position_row(module, table) ==
    [Designator |-> module.ref,
     MidX       |-> [num |-> module.center.x, den |-> 1000000, unit |-> "mm"],
     MidY       |-> [num |-> -module.center.y, den |-> 1000000, unit |-> "mm"],
     Layer      |-> "T",
     Rotation   |-> rotation_of(module.orientation,
                                override_get(table, module.ref))]

\* the module is skipped: not on F.Cu, or the sentinel reference
position_skips(module) ==
    \/ ~(module.layer = "F.Cu")
    \/ module.ref = SENTINEL

\* the loop "for module in self.board.GetModules()" from module i on
RECURSIVE position_rows(_, _, _)
position_rows(mods, i, table) ==
    IF i > Len(mods) THEN <<>>
    ELSE IF position_skips(mods[i])
         THEN position_rows(mods, i + 1, table)
         ELSE <<position_row(mods[i], table)>>
                  \o position_rows(mods, i + 1, table)

(***************************************************************************)
(* generate_gerber: the plot options each plugin sets.  An option the      *)
(* method never sets (UseGerberAttributes: the call is commented out)      *)
(* keeps the value the board had.                                          *)
(***************************************************************************)
\* JlcPlugin.generate_gerber, the popt.Set... calls
jlc_plot_options(p) ==
    [p EXCEPT !.Format = "PLOT_FORMAT_GERBER",
              !.OutputDirectory = "fab",
              !.PlotValue = FALSE,
              !.PlotReference = TRUE,
              !.PlotInvisibleText = FALSE,
              !.ExcludeEdgeLayer = TRUE,
              !.PlotPadsOnSilkLayer = FALSE,
              !.UseAuxOrigin = FALSE,
              !.DrillMarksType = "NO_DRILL_SHAPE",
              !.AutoScale = FALSE,
              !.Scale = 1,
              !.PlotMode = "FILLED_SHAPE",
              !.Mirror = FALSE,
              !.Negative = FALSE,
              !.UseGerberProtelExtensions = TRUE,
              !.CreateGerberJobFile = FALSE,
              !.SubtractMaskFromSilk = TRUE,
              !.UseGerberX2format = FALSE,
              !.IncludeGerberNetlistInfo = FALSE]

\* Pcb2GcodePlugin.generate_gerber, the popt.Set... calls
pcb2gcode_plot_options(p) ==
    [p EXCEPT !.Format = "PLOT_FORMAT_GERBER",
              !.OutputDirectory = "fab",
              !.PlotValue = FALSE,
              !.PlotReference = TRUE,
              !.PlotInvisibleText = FALSE,
              !.ExcludeEdgeLayer = TRUE,
              !.PlotPadsOnSilkLayer = FALSE,
              !.UseAuxOrigin = FALSE,
              !.DrillMarksType = "NO_DRILL_SHAPE",
              !.AutoScale = FALSE,
              !.Scale = 1,
              !.PlotMode = "FILLED_SHAPE",
              !.Mirror = FALSE,
              !.Negative = FALSE,
              !.UseGerberProtelExtensions = TRUE,
              !.CreateGerberJobFile = FALSE,
              !.SubtractMaskFromSilk = TRUE,
              !.UseGerberX2format = FALSE,
              !.IncludeGerberNetlistInfo = FALSE]

plot_options(p) ==
    IF pipeline = "A" THEN jlc_plot_options(p) ELSE pcb2gcode_plot_options(p)

\* the files the loop over self.layers plots: the toolkit names them
\* <project>-<suffix>.<protel extension> and leaves out the ones it fails on
plotted_files ==
    {project_name \o "-" \o layer_name(layers[i]) : i \in DOMAIN layers}
        \ missing

\* the files CreateDrillandMapFilesSet writes (drill and map, merged PTH/NPTH)
drilled_files ==
    {project_name \o drill_files[i].source_extension : i \in DOMAIN drill_files}
        \ missing

(***************************************************************************)
(* The steps of Run.  Run has no try/except: a step that raises ends it.   *)
(***************************************************************************)
\* after_step of a Run that swallows the exception and goes on
after_step_ignore(ok, next) == next

\* where Run is once a step has returned normally or raised
after_step(ok, next) == IF ok THEN next ELSE "failed"

\* Pcb2GcodePlugin.Run ends after rename_files, JlcPlugin.Run goes on
after_rename == IF pipeline = "A" THEN "renamed" ELSE "done"

\* JlcPlugin.prepare: assign the fields, then wipe and recreate both
\* directories; the files in them (archive, bom.csv, cpl.csv) are gone.
\* Pcb2GcodePlugin.prepare: the same text, but the module does not import
\* shutil, so shutil.rmtree raises NameError (not caught by
\* except FileNotFoundError) after the fields are assigned.
prepare ==
    /\ pc = "start"
    /\ steps' = Append(steps, "prepare")
    /\ attrs' = TRUE
    /\ IF pipeline = "A"
       THEN /\ fab' = mkdir(rmtree(fab))
            /\ jlc' = mkdir(rmtree(jlc))
            /\ archive' = <<>>
            /\ bom' = <<>>
            /\ cpl' = [header |-> <<>>, rows |-> <<>>]
            /\ pc' = after_step(TRUE, "prepared")
       ELSE /\ UNCHANGED <<fab, jlc, archive, bom, cpl>>
            /\ pc' = after_step(FALSE, "prepared")
    /\ UNCHANGED <<pipeline, popt, missing, netlist, netlistOk, modules,
                   overrides>>

generate_gerber ==
    /\ pc = "prepared"
    /\ steps' = Append(steps, "generate_gerber")
    /\ popt' = plot_options(popt)
    /\ fab' = [fab EXCEPT !.files = @ \cup plotted_files]
    /\ pc' = after_step(TRUE, "plotted")
    /\ UNCHANGED <<pipeline, attrs, jlc, archive, missing, netlist, netlistOk,
                   bom, modules, overrides, cpl>>

generate_drill ==
    /\ pc = "plotted"
    /\ steps' = Append(steps, "generate_drill")
    /\ fab' = [fab EXCEPT !.files = @ \cup drilled_files]
    /\ pc' = after_step(TRUE, "drilled")
    /\ UNCHANGED <<pipeline, attrs, jlc, archive, popt, missing, netlist,
                   netlistOk, bom, modules, overrides, cpl>>

rename_files ==
    /\ pc = "drilled"
    /\ steps' = Append(steps, "rename_files")
    /\ LET r == rename_from(1, fab.files)
       IN /\ fab' = [fab EXCEPT !.files = r.files]
          /\ pc' = after_step(r.ok, after_rename)
    /\ UNCHANGED <<pipeline, attrs, jlc, archive, popt, missing, netlist,
                   netlistOk, bom, modules, overrides, cpl>>

\* the members the archive is given: every entry of self.files
generate_gerber_zipfile ==
    /\ pc = "renamed"
    /\ steps' = Append(steps, "generate_gerber_zipfile")
    /\ LET z == zip_from(1, fab.files, <<>>)
       IN /\ jlc' = [jlc EXCEPT !.files = @ \cup {zip_name}]
          /\ archive' = z.members
          /\ pc' = after_step(z.ok, "zipped")
    /\ UNCHANGED <<pipeline, attrs, fab, popt, missing, netlist, netlistOk,
                   bom, modules, overrides, cpl>>

NoComponent == [ref |-> "", lcsc |-> Str_empty, value |-> "",
                description |-> "", footprint |-> <<"", "">>]

\* the netlist is parsed before bom.csv is opened
generate_bom ==
    /\ pc = "zipped"
    /\ steps' = Append(steps, "generate_bom")
    /\ IF netlistOk
       THEN /\ jlc' = [jlc EXCEPT !.files = @ \cup {bom_name}]
            /\ bom' = bom_rows(netlist, 1, NoComponent)
       ELSE UNCHANGED <<jlc, bom>>
    /\ pc' = after_step(netlistOk, "bom")
    /\ UNCHANGED <<pipeline, attrs, fab, archive, popt, missing, netlist,
                   netlistOk, modules, overrides, cpl>>

\* the override file is loaded before cpl.csv is opened; a file that is
\* there but is not a mapping document raises
generate_position ==
    /\ pc = "bom"
    /\ steps' = Append(steps, "generate_position")
    /\ IF overrides.kind # "malformed"
       THEN /\ jlc' = [jlc EXCEPT !.files = @ \cup {position_name}]
            /\ cpl' = [header |-> fieldnames,
                       rows |-> position_rows(modules, 1,
                                              load_overrides(overrides))]
       ELSE UNCHANGED <<jlc, cpl>>
    /\ pc' = after_step(overrides.kind # "malformed", "done")
    /\ UNCHANGED <<pipeline, attrs, fab, archive, popt, missing, netlist,
                   netlistOk, bom, modules, overrides>>

(***************************************************************************)
(* generate_gerber called on the plugin object outside Run (the methods    *)
(* are public and read only the fields prepare has assigned).              *)
(***************************************************************************)
call_generate_gerber ==
    /\ pc \in {"done", "failed"}
    /\ attrs
    /\ fab.exists
    /\ popt' = plot_options(popt)
    /\ fab' = [fab EXCEPT !.files = @ \cup plotted_files]
    /\ UNCHANGED <<pipeline, pc, steps, attrs, jlc, archive, missing, netlist,
                   netlistOk, bom, modules, overrides, cpl>>

(***************************************************************************)
(* What the environment hands to a run.                                    *)
(***************************************************************************)
\* the plot options of a board nobody has plotted yet
DefaultPlotParams ==
    [Format |-> "PLOT_FORMAT_GERBER", OutputDirectory |-> "",
     PlotValue |-> TRUE, PlotReference |-> TRUE, PlotInvisibleText |-> FALSE,
     ExcludeEdgeLayer |-> TRUE, PlotPadsOnSilkLayer |-> FALSE,
     UseAuxOrigin |-> FALSE, DrillMarksType |-> "SMALL_DRILL_SHAPE",
     AutoScale |-> FALSE, Scale |-> 1, PlotMode |-> "FILLED_SHAPE",
     Mirror |-> FALSE, Negative |-> FALSE,
     UseGerberProtelExtensions |-> FALSE, CreateGerberJobFile |-> TRUE,
     SubtractMaskFromSilk |-> FALSE, UseGerberX2format |-> TRUE,
     IncludeGerberNetlistInfo |-> TRUE, UseGerberAttributes |-> FALSE]

\* the plot options a board may carry from its plot dialog
PlotParams ==
    {[DefaultPlotParams EXCEPT !.UseAuxOrigin = a, !.SubtractMaskFromSilk = s,
                               !.ExcludeEdgeLayer = e,
                               !.UseGerberAttributes = g,
                               !.IncludeGerberNetlistInfo = n] :
        a \in BOOLEAN, s \in BOOLEAN, e \in BOOLEAN, g \in BOOLEAN,
        n \in BOOLEAN}

\* a directory before a run: absent, or holding what earlier runs left
DirStates(stale) ==
    {NoDir} \cup {[exists |-> TRUE, files |-> S] : S \in SUBSET stale}

StaleFab == {"Drill.drl", "old.gbr"}
StaleJlc == {zip_name, bom_name}

\* the archive an earlier run left in jlc
stale_archive(dir) == IF zip_name \in dir.files THEN <<"old.gbr">> ELSE <<>>

\* the toolkit fails to produce at most MaxMissing of the files
DrawMissing ==
    \E S \in SUBSET SourceNames :
        /\ Cardinality(S) <= MaxMissing
        /\ missing = S

MakeComponent(i, sentinel, pn) ==
    [ref |-> IF sentinel THEN SENTINEL ELSE "R" \o ToString(i),
     lcsc |-> pn, value |-> "10k", description |-> "Resistor",
     footprint |-> <<"Resistor_SMD", "R_0603">>]

Min(S) == CHOOSE x \in S : \A y \in S : x <= y

\* the components cut into consecutive groups; cuts holds the positions
\* after which a new group starts
RECURSIVE SplitGroups(_, _)
SplitGroups(comps, cuts) ==
    IF comps = <<>> THEN <<>>
    ELSE LET n == Len(comps)
             k == IF cuts = {} THEN n ELSE Min(cuts)
         IN <<SubSeq(comps, 1, k)>>
                \o SplitGroups(SubSeq(comps, k + 1, n),
                               {c - k : c \in cuts \ {k}})

\* net.groupComponents(): every real reference occurs once, groups are
\* not empty
DrawNetlist(pnset) ==
    \E n \in 0..MaxComponents :
        \E flags \in [1..n -> BOOLEAN], pns \in [1..n -> pnset],
           cuts \in SUBSET (1..(n - 1)) :
            netlist = SplitGroups(
                [i \in 1..n |-> MakeComponent(i, flags[i], pns[i])], cuts)

SampleNetlist ==
    << <<MakeComponent(1, FALSE, Str_C12345), MakeComponent(2, FALSE, Str_empty)>>,
       <<MakeComponent(3, TRUE, Str_empty)>> >>

\* orientations in tenths of a degree
Orientations == {-1795, 900, 3599}
OverrideValues == {-725, 90}

MakeModule(i, sentinel, layer, orientation) ==
    [ref |-> IF sentinel THEN SENTINEL ELSE "U" \o ToString(i),
     layer |-> layer, orientation |-> orientation,
     center |-> [x |-> 12345000 * i, y |-> 5000000]]

DrawBoard(oriset) ==
    \E n \in 0..MaxModules :
        \E flags \in [1..n -> BOOLEAN], lay \in [1..n -> {"F.Cu", "B.Cu"}],
           ori \in [1..n -> oriset] :
            modules = [i \in 1..n |-> MakeModule(i, flags[i], lay[i], ori[i])]

SampleBoard ==
    << MakeModule(1, FALSE, "F.Cu", 900), MakeModule(2, FALSE, "B.Cu", 0) >>

ModuleRefs == {"U" \o ToString(i) : i \in 1..MaxModules}

\* jlc-rotation-override.yml: absent, a mapping reference -> degrees, or a
\* document that is not one
DrawOverrides ==
    \/ overrides = [kind |-> "absent", table |-> << >>]
    \/ overrides = [kind |-> "malformed", table |-> << >>]
    \/ \E S \in SUBSET ModuleRefs :
           \E t \in [S -> OverrideValues] :
               overrides = [kind |-> "mapping", table |-> t]

SampleOverrides ==
    {[kind |-> "absent", table |-> << >>],
     [kind |-> "malformed", table |-> << >>],
     [kind |-> "mapping", table |-> [r \in {"U1"} |-> 90]]}

InitRun ==
    /\ pc = "start"
    /\ steps = <<>>
    /\ attrs = FALSE
    /\ bom = <<>>
    /\ cpl = [header |-> <<>>, rows |-> <<>>]

\* every run of either plugin over the directory states, the toolkit's
\* omissions and the readability of the inputs
Init ==
    /\ InitRun
    /\ pipeline \in {"A", "B"}
    /\ fab \in DirStates(StaleFab)
    /\ jlc \in DirStates(StaleJlc)
    /\ archive = stale_archive(jlc)
    /\ popt = DefaultPlotParams
    /\ DrawMissing
    /\ netlist = SampleNetlist
    /\ netlistOk \in BOOLEAN
    /\ modules = SampleBoard
    /\ overrides \in SampleOverrides

\* pipeline A over every netlist
InitBom ==
    /\ InitRun
    /\ pipeline = "A"
    /\ fab = NoDir
    /\ jlc = NoDir
    /\ archive = <<>>
    /\ popt = DefaultPlotParams
    /\ missing = {}
    /\ DrawNetlist(PartNumbers)
    /\ netlistOk = TRUE
    /\ modules = SampleBoard
    /\ overrides = [kind |-> "absent", table |-> << >>]

\* pipeline A over every board and override file
InitPosition ==
    /\ InitRun
    /\ pipeline = "A"
    /\ fab = NoDir
    /\ jlc = NoDir
    /\ archive = <<>>
    /\ popt = DefaultPlotParams
    /\ missing = {}
    /\ netlist = SampleNetlist
    /\ netlistOk = TRUE
    /\ DrawBoard(Orientations)
    /\ DrawOverrides

\* pipeline A over netlists and boards that hold the sentinel reference
InitExport ==
    /\ InitRun
    /\ pipeline = "A"
    /\ fab = NoDir
    /\ jlc = NoDir
    /\ archive = <<>>
    /\ popt = DefaultPlotParams
    /\ missing = {}
    /\ DrawNetlist({Str_empty, Str_skip})
    /\ netlistOk = TRUE
    /\ DrawBoard({900})
    /\ overrides = [kind |-> "absent", table |-> << >>]

\* either plugin over every plot-dialog state of the board
InitPlot ==
    /\ InitRun
    /\ pipeline \in {"A", "B"}
    /\ fab \in {NoDir, EmptyDir}
    /\ jlc = NoDir
    /\ archive = <<>>
    /\ popt \in PlotParams
    /\ missing = {}
    /\ netlist = SampleNetlist
    /\ netlistOk = TRUE
    /\ modules = SampleBoard
    /\ overrides = [kind |-> "absent", table |-> << >>]

\* JlcPlugin.Run / Pcb2GcodePlugin.Run: the steps in call order
Next ==
    \/ prepare
    \/ generate_gerber
    \/ generate_drill
    \/ rename_files
    \/ generate_gerber_zipfile
    \/ generate_bom
    \/ generate_position

NextPlot ==
    \/ Next
    \/ call_generate_gerber

Spec == Init /\ [][Next]_vars
SpecBom == InitBom /\ [][Next]_vars
SpecPosition == InitPosition /\ [][Next]_vars
SpecExport == InitExport /\ [][Next]_vars
SpecPlot == InitPlot /\ [][NextPlot]_vars

(***************************************************************************)
(* Vocabulary of the properties.                                           *)
(***************************************************************************)
called(method) == \E i \in DOMAIN steps : steps[i] = method

last_called == IF steps = <<>> THEN "" ELSE steps[Len(steps)]

IsPrefix(s, t) == Len(s) <= Len(t) /\ s = SubSeq(t, 1, Len(s))

\* this run has written bom.csv / cpl.csv
BomWritten == called("generate_bom") /\ bom_name \in jlc.files
CplWritten == called("generate_position") /\ position_name \in jlc.files

\* ref is listed in the Designator field of some row of bom.csv
InBom(ref) ==
    \E j \in DOMAIN bom :
        \E k \in DOMAIN bom[j].Designator : bom[j].Designator[k] = ref

RefsOf(group) == [i \in DOMAIN group |-> group[i].ref]

\* the members up to i that take part in the part number: the sentinel is
\* passed over before its field is read
Contributors(group, i) ==
    {k \in 1..i : group[k].ref # SENTINEL /\ group[k].lcsc # Str_empty}

Max(S) == CHOOSE x \in S : \A y \in S : y <= x

\* the part number member i resolves to: the last non-empty one met so far
Resolved(group, i) ==
    IF Contributors(group, i) = {} THEN Str_empty
    ELSE group[Max(Contributors(group, i))].lcsc

\* "skip" in any letter case
SkipWords ==
    {w \in [1..4 -> {"s","S","k","K","i","I","p","P"}] :
        /\ w[1] \in {"s","S"} /\ w[2] \in {"k","K"}
        /\ w[3] \in {"i","I"} /\ w[4] \in {"p","P"}}

Excluded(group, i) ==
    \/ group[i].ref = SENTINEL
    \/ Resolved(group, i) \in SkipWords

AllExcluded(group) == \A i \in DOMAIN group : Excluded(group, i)

\* no member is the sentinel and no member's own part number is "skip"
Plain(group) ==
    \A i \in DOMAIN group :
        group[i].ref # SENTINEL /\ group[i].lcsc \notin SkipWords

ModuleOf(ref) == modules[CHOOSE i \in DOMAIN modules : modules[i].ref = ref]

(***************************************************************************)
(* C1.  In the BOM a member whose resolved part number is "skip" (any      *)
(* case) is not listed, and every non-sentinel member whose own            *)
(* part-number field is not "skip" is listed in a row.                     *)
(***************************************************************************)
C1_SkipRemovesOnlyItself ==
    BomWritten =>
        \A g \in DOMAIN netlist :
            \A i \in DOMAIN netlist[g] :
                LET m == netlist[g][i]
                IN /\ (m.ref # SENTINEL /\ Resolved(netlist[g], i) \in SkipWords)
                          => ~InBom(m.ref)
                   /\ (m.ref # SENTINEL /\ m.lcsc \notin SkipWords)
                          => InBom(m.ref)

(***************************************************************************)
(* C2.  The Rotation of every row of cpl.csv is an integer r with          *)
(* 0 <= r < 360, for every board rotation and every integer override.      *)
(***************************************************************************)
C2_RotationInRange ==
    CplWritten =>
        \A j \in DOMAIN cpl.rows :
            /\ cpl.rows[j].Rotation \in Int
            /\ 0 <= cpl.rows[j].Rotation
            /\ cpl.rows[j].Rotation < 360

\* a row of a module turned to a negative angle with a negative override
C2_Witness ==
    /\ CplWritten
    /\ overrides.kind = "mapping"
    /\ \E j \in DOMAIN cpl.rows :
           LET ref == cpl.rows[j].Designator
           IN /\ ModuleOf(ref).orientation < 0
              /\ ref \in DOMAIN overrides.table
              /\ overrides.table[ref] < -360

(***************************************************************************)
(* C3.  No row of bom.csv and no row of cpl.csv names the sentinel         *)
(* reference "REF**".                                                      *)
(***************************************************************************)
C3_NoSentinelInOutputs ==
    /\ BomWritten => ~InBom(SENTINEL)
    /\ CplWritten =>
           \A j \in DOMAIN cpl.rows : cpl.rows[j].Designator # SENTINEL

\* both files written, with rows, from inputs that hold the sentinel in a
\* group with a real component and on the top side of the board
C3_Witness ==
    /\ BomWritten /\ CplWritten
    /\ bom # <<>> /\ cpl.rows # <<>>
    /\ \E g \in DOMAIN netlist :
           /\ \E i \in DOMAIN netlist[g] : netlist[g][i].ref = SENTINEL
           /\ \E i \in DOMAIN netlist[g] : InBom(netlist[g][i].ref)
    /\ \E i \in DOMAIN modules :
           modules[i].ref = SENTINEL /\ modules[i].layer = "F.Cu"

(***************************************************************************)
(* C4.  A group without the sentinel and without a "skip" part number      *)
(* gives exactly one row; its Designator lists every member in encounter   *)
(* order and its part number is the last non-empty one of the group        *)
(* (empty when there is none).                                             *)
(***************************************************************************)
C4_PlainGroupRow ==
    BomWritten =>
        \A g \in DOMAIN netlist :
            Plain(netlist[g]) =>
                LET rows == {j \in DOMAIN bom :
                                bom[j].Designator = RefsOf(netlist[g])}
                IN /\ Cardinality(rows) = 1
                   /\ \A j \in rows :
                          bom[j].LCSC = Resolved(netlist[g], Len(netlist[g]))

\* two-member groups, C12345 with an empty field in either order, and a
\* group in which a later part number replaces an earlier one
C4_Witness ==
    /\ BomWritten
    /\ Len(netlist) = 1 /\ Len(netlist[1]) = 2
    /\ netlist[1][1].ref # SENTINEL /\ netlist[1][2].ref # SENTINEL
    /\ netlist[1][1].lcsc = Str_empty /\ netlist[1][2].lcsc = Str_C12345
    /\ Len(bom) = 1
    /\ bom[1].Designator = <<"R1", "R2">>
    /\ bom[1].LCSC = Str_C12345

(***************************************************************************)
(* C5.  A group whose every member is excluded (sentinel, or resolving to  *)
(* "skip") gives no row, and every row has a non-empty reference list.     *)
(***************************************************************************)
C5_ExcludedGroupNoRow ==
    BomWritten =>
        /\ Len(bom) = Cardinality({g \in DOMAIN netlist :
                                      ~AllExcluded(netlist[g])})
        /\ \A g \in DOMAIN netlist :
               AllExcluded(netlist[g]) =>
                   \A i \in DOMAIN netlist[g] : ~InBom(netlist[g][i].ref)
        /\ \A j \in DOMAIN bom : bom[j].Designator # <<>>

\* an all-excluded group (a sentinel and a skip member) next to a group
\* that gives a row
C5_Witness ==
    /\ BomWritten
    /\ Len(bom) = 1
    /\ Len(netlist) = 2
    /\ AllExcluded(netlist[1])
    /\ \E i \in DOMAIN netlist[1] : netlist[1][i].ref = SENTINEL
    /\ \E i \in DOMAIN netlist[1] :
           netlist[1][i].ref # SENTINEL /\ netlist[1][i].lcsc \in SkipWords

RenamedBeforeFailure ==
    {i \in DOMAIN files :
        \A k \in 1..i : files[k].source_path \notin missing}

C7_OrderAbortNoRollback ==
    pipeline = "A" =>
        /\ IsPrefix(steps, RunOrder)
        /\ (pc \notin {"start", "failed"}) =>
               LET n == Len(steps)
               IN pc = <<"prepared", "plotted", "drilled", "renamed", "zipped",
                         "bom", "done">>[n]
        /\ missing # {} => ~called("generate_gerber_zipfile")
        /\ ~netlistOk => ~called("generate_position")
        /\ overrides.kind = "malformed" => pc # "done"
        /\ (pc = "failed" /\ last_called = "rename_files") =>
               /\ missing # {}
               /\ fab.exists /\ jlc.exists
               /\ \A i \in DOMAIN files :
                      IF i \in RenamedBeforeFailure
                      THEN files[i].destination_path \in fab.files
                      ELSE (files[i].source_path \notin missing)
                               => files[i].source_path \in fab.files
        /\ (pc = "failed" /\ last_called = "generate_bom") =>
               /\ ~netlistOk
               /\ CanonicalNames \subseteq fab.files
               /\ zip_name \in jlc.files
               /\ bom_name \notin jlc.files
        /\ (pc = "failed" /\ last_called = "generate_position") =>
               /\ overrides.kind = "malformed"
               /\ CanonicalNames \subseteq fab.files
               /\ {zip_name, bom_name} \subseteq jlc.files
               /\ position_name \notin jlc.files

\* rename_files fails on a missing layer file after it renamed the drill
\* files
C7_Witness ==
    /\ pipeline = "A"
    /\ pc = "failed"
    /\ steps = SubSeq(RunOrder, 1, 4)
    /\ "Drill.drl" \in fab.files
    /\ "F_Cu.gtl" \notin fab.files
    /\ "proj-B_Cu.gbl" \in fab.files

(***************************************************************************)
(* C8.  In both pipelines prepare leaves fab and jlc existing and empty,   *)
(* whatever they held before, and the run goes on.                         *)
(***************************************************************************)
C8_PrepareCleansBothPipelines ==
    steps = <<"prepare">> =>
        /\ pc = "prepared"
        /\ fab = EmptyDir
        /\ jlc = EmptyDir

(***************************************************************************)
(* C9.  After a successful pipeline A run the archive holds exactly the    *)
(* layer files plus the drill file under their canonical names; a          *)
(* pipeline B run creates no archive.                                      *)
(***************************************************************************)
ArchiveIs(names) ==
    /\ zip_name \in jlc.files
    /\ Range(archive) = names
    /\ Len(archive) = Cardinality(names)

NoArchiveCreated ==
    /\ ~called("generate_gerber_zipfile")
    /\ archive = stale_archive(jlc)

C9_ArchiveLayersAndDrill ==
    /\ (pipeline = "A" /\ pc = "done") =>
           ArchiveIs(LayerNames \cup {"Drill.drl"})
    /\ pipeline = "B" => NoArchiveCreated

\* C9 as amended: the archive holds every file of the rename manifest: the
\* layer files, the drill file and the drill map
C9_ArchiveIsManifest ==
    /\ (pipeline = "A" /\ pc = "done") =>
           ArchiveIs(LayerNames \cup {"Drill.drl", "Drill_Map.gbr"})
    /\ pipeline = "B" => NoArchiveCreated

C9_Witness ==
    /\ pipeline = "A"
    /\ pc = "done"
    /\ Len(archive) = 10

(***************************************************************************)
(* C10.  Once pipeline B's plot step has configured the toolkit, the plot  *)
(* options are: auxiliary origin on, subtract mask from silk off, exclude  *)
(* edge layer off, gerber attributes on (unlike pipeline A's profile).     *)
(***************************************************************************)
C10_MillingProfile ==
    (pipeline = "B" /\ popt.OutputDirectory = "fab") =>
        /\ popt.UseAuxOrigin = TRUE
        /\ popt.SubtractMaskFromSilk = FALSE
        /\ popt.ExcludeEdgeLayer = FALSE
        /\ popt.UseGerberAttributes = TRUE

====
